---- MODULE Spec2Model ----
(***************************************************************************)
(* Model of the POST /process-withdrawal handler of the Qubic withdrawal   *)
(* service, in its two variants:                                           *)
(*   "A"  src/withdrawal-service.js                                        *)
(*   "B"  src/unnamed/part_000  (withdrawal-service (1).js)                *)
(* Every await of the handler is one step of an invocation; the code       *)
(* between two awaits runs atomically (single-threaded event loop).  The   *)
(* record store, the network gateway and the transfer builder are          *)
(* collaborators whose outcomes are chosen nondeterministically.           *)
(***************************************************************************)
EXTENDS Integers, Sequences, FiniteSets, TLC

\* ---- bounds ----
NProc == 2
Procs == 1..NProc

\* ---- program constants ----
RatioPct == 55          \* totalAiMined * 0.55, kept exact as hundredths
TickOffset == 20        \* targetTick = currentTick + 20

\* ---- values ----
Null == 0               \* null / undefined / '' : every falsy value of JS
MissingId == 0          \* req.body.withdrawalId absent (falsy)
StoredIds == {1, 2}     \* ids with a row in table withdrawals
UnknownId == 3          \* id with no row
ReqIds == {MissingId, UnknownId} \cup StoredIds
Variants == {"A", "B"}
\* outcome of one call to the record store: applied, error object returned
\* in the result (the handler never looks at it), or the promise rejects
StoreOutcomes == {"ok", "error", "throw"}
Ticks == {0, 7}         \* tickData.lastProcessedTick?.tickNumber || 0
Ledgers == { <<>>, <<20>>, <<20, Null, 20>> }   \* amounts of the ai_mining rows
AmountOf(id) == IF id = 1 THEN 11 ELSE 5
TxOf(p) == p            \* identifier of the transaction built by invocation p

VARIABLES
  variant,       \* which file is deployed
  withdrawals,   \* table withdrawals: id -> row
  transactions,  \* table transactions: sequence of rows in created_at order
  submissions,   \* transactions the Qubic network has accepted
  pc,            \* position of each invocation in the handler
  reqId,         \* req.body.withdrawalId
  frame,         \* the constants of the try block: withdrawal, treasuryBalance,
                 \* availableBalance (both in hundredths), targetTick,
                 \* transaction (its getTxId()), txHash
  error,         \* the exception caught by the catch block
  res,           \* the response sent on res
  calls,         \* log of an invocation: the collaborator calls it has made,
                 \* with ":ok" added for a store call that took effect
  pair           \* the two variants run side by side on one request: empty, or
                 \* the request, the collaborators' outcomes and both results

vars == <<variant, withdrawals, transactions, submissions, pc, reqId, frame,
          error, res, calls, pair>>

NoRow == [status |-> "none", amount |-> 0, user_id |-> 0, tx_hash |-> Null]
\* explorerUrl: `https://explorer.qubic.org/network/tx/${txHash}`
ExplorerUrl(hash) == <<"https://explorer.qubic.org/network/tx/", hash>>
NoUrl == <<>>
NoRes == [code |-> 0, kind |-> "none", status |-> "none", txHash |-> Null,
          explorerUrl |-> NoUrl]
NoFrame == [withdrawal |-> NoRow, treasuryBalance |-> 0, availableBalance |-> 0,
            targetTick |-> 0, builtTxId |-> Null, txHash |-> Null]

Response(code, kind, status, hash) ==
  [code |-> code, kind |-> kind, status |-> status, txHash |-> hash,
   explorerUrl |-> IF kind = "Success" THEN ExplorerUrl(hash) ELSE NoUrl]

\* rows of table transactions
MiningRow(a) == [type |-> "ai_mining", amount |-> a, user_id |-> 0,
                 tx_hash |-> Null, status |-> "completed"]
WithdrawalTxRow(id) == [type |-> "withdrawal", amount |-> AmountOf(id), user_id |-> id,
                        tx_hash |-> Null, status |-> "pending"]

RECURSIVE MiningRows(_)
MiningRows(s) == IF s = <<>> THEN <<>> ELSE <<MiningRow(Head(s))>> \o MiningRows(Tail(s))

Init ==
  /\ variant \in Variants
  /\ withdrawals = [id \in StoredIds |->
                      [status |-> "pending", amount |-> AmountOf(id),
                       user_id |-> id, tx_hash |-> Null]]
  /\ \E l \in Ledgers :
       transactions = MiningRows(l) \o <<WithdrawalTxRow(1), WithdrawalTxRow(2)>>
  /\ submissions = {}
  /\ pc = [p \in Procs |-> "idle"]
  /\ reqId = [p \in Procs |-> MissingId]
  /\ frame = [p \in Procs |-> NoFrame]
  /\ error = [p \in Procs |-> "none"]
  /\ res = [p \in Procs |-> NoRes]
  /\ calls = [p \in Procs |-> {}]
  /\ pair = <<>>

\* ---- helpers ----
OrZero(x) == IF x = Null THEN 0 ELSE x          \* (x || 0)
OrElse(x, y) == IF x # Null THEN x ELSE y       \* (x || y)

RECURSIVE SumAmounts(_)
\* rows.reduce((sum, t) => sum + (t.amount || 0), 0)
SumAmounts(s) ==
  IF s = <<>> THEN 0 ELSE OrZero(Head(s).amount) + SumAmounts(Tail(s))

IsMining(t) == t.type = "ai_mining"
RECURSIVE SetSum(_, _)
SetSum(ids, tbl) ==
  IF ids = {} THEN 0
  ELSE LET id == CHOOSE x \in ids : TRUE
       IN OrZero(tbl[id].amount) + SetSum(ids \ {id}, tbl)

\* select amount from transactions where type = 'ai_mining', reduced
TotalAiMined(tbl) == SumAmounts(SelectSeq(tbl, IsMining))
TotalWithdrawnNonPending(tbl) ==
  SetSum({id \in DOMAIN tbl : tbl[id].status # "pending"}, tbl)
\* select amount from withdrawals where status = 'completed', reduced
TotalWithdrawn(tbl) == SetSum({id \in DOMAIN tbl : tbl[id].status = "completed"}, tbl)
\* totalAiMined * 0.55, in hundredths
TreasuryBalance(mined) == mined * RatioPct
\* treasuryBalance - totalWithdrawalAmount, in hundredths
Available(treasury, withdrawn) == treasury - withdrawn * 100

\* variants of the store updates and guards with a plausible slip
MarkFailedNoop(tbl, id) == tbl
MarkFailedWipe(tbl, id) ==
  IF id \in DOMAIN tbl
  THEN [tbl EXCEPT ![id].status = "failed", ![id].tx_hash = Null]
  ELSE tbl
MarkFailedUpsert(tbl, id) ==
  [x \in DOMAIN tbl \cup {id} |->
     IF x = id THEN [status |-> "failed", amount |-> 0, user_id |-> 0, tx_hash |-> Null]
     ELSE tbl[x]]
MarkCompletedNoHash(tbl, id, hash) ==
  IF id \in DOMAIN tbl THEN [tbl EXCEPT ![id].status = "completed"] ELSE tbl
MarkCompletedNoStatus(tbl, id, hash) ==
  IF id \in DOMAIN tbl THEN [tbl EXCEPT ![id].tx_hash = hash] ELSE tbl

\* update({status:'failed'}).eq('id', id)
MarkFailed(tbl, id) ==
  IF id \in DOMAIN tbl THEN [tbl EXCEPT ![id].status = "failed"] ELSE tbl
\* update({status:'completed', tx_hash, completed_at}).eq('id', id)
MarkCompleted(tbl, id, hash) ==
  IF id \in DOMAIN tbl
  THEN [tbl EXCEPT ![id].status = "completed", ![id].tx_hash = hash]
  ELSE tbl
\* update({status:'completed', tx_hash}).eq('user_id', u).eq('type','withdrawal')
\*   .is('tx_hash', null).order('created_at', desc).limit(1)
MatchingTx(tbl, u) ==
  {i \in 1..Len(tbl) : tbl[i].user_id = u /\ tbl[i].type = "withdrawal"
                        /\ tbl[i].tx_hash = Null}
UpdateTransaction(tbl, u, hash) ==
  IF MatchingTx(tbl, u) = {} THEN tbl
  ELSE LET i == CHOOSE k \in MatchingTx(tbl, u) : \A j \in MatchingTx(tbl, u) : j <= k
       IN [tbl EXCEPT ![i].status = "completed", ![i].tx_hash = hash]

Called(p, c) == calls' = [calls EXCEPT ![p] = @ \cup c]
\* the handler goes on to its next await with the try block's constants f
Continue(p, l, f) ==
  /\ pc' = [pc EXCEPT ![p] = l]
  /\ frame' = [frame EXCEPT ![p] = f]
  /\ UNCHANGED <<error, res>>
\* an exception reaches the catch block; the try block's constants are out
\* of scope there
Throw(p, e) ==
  /\ pc' = [pc EXCEPT ![p] = "catch"]
  /\ error' = [error EXCEPT ![p] = e]
  /\ frame' = [frame EXCEPT ![p] = NoFrame]
  /\ UNCHANGED res
\* res.status(code).json(...): the handler ends
Respond(p, r) ==
  /\ pc' = [pc EXCEPT ![p] = "done"]
  /\ res' = [res EXCEPT ![p] = r]
  /\ frame' = [frame EXCEPT ![p] = NoFrame]
  /\ error' = [error EXCEPT ![p] = "none"]
\* the async handler's promise rejects: nothing is sent on res
Reject(p) ==
  /\ pc' = [pc EXCEPT ![p] = "unhandled"]
  /\ frame' = [frame EXCEPT ![p] = NoFrame]
  /\ error' = [error EXCEPT ![p] = "none"]
  /\ UNCHANGED res

\* ---- conditions of the handler ----
AlreadyProcessedOnlyCompleted(w) == w.status = "completed"
InsufficientOrEqual(avail, amount) == avail <= amount * 100
\* if (withdrawal.status !== 'pending')
AlreadyProcessed(w) == w.status # "pending"
\* if (availableBalance < Number(withdrawal.amount))
Insufficient(avail, amount) == avail < amount * 100
\* if (!txHash) throw ...   -- present in variant A only
RejectsMissingTxHash(v) == v = "A"
\* try { update failed } catch (dbError) { log }   -- inner try in variant A only
CatchUpdateGuarded(v) == v = "A"

\* ---- the handler, one action per await ----

\* request received; if (!withdrawalId) return 400
Start(p, id) ==
  /\ pc[p] = "idle"
  /\ reqId' = [reqId EXCEPT ![p] = id]
  /\ IF id = MissingId
     THEN Respond(p, Response(400, "MissingId", "none", Null))
     ELSE Continue(p, "fetch", frame[p])
  /\ UNCHANGED <<pair, variant, withdrawals, transactions, submissions, calls>>

\* from('withdrawals').select('*').eq('id', id).single(), then the 404 and
\* status guards
Fetch(p, out) ==
  /\ pc[p] = "fetch"
  /\ Called(p, IF out = "ok" /\ reqId[p] \in DOMAIN withdrawals
               THEN {"fetch", "fetch:ok"} ELSE {"fetch"})
  /\ UNCHANGED <<pair, variant, withdrawals, transactions, submissions, reqId>>
  /\ CASE out = "throw" -> Throw(p, "StoreReadFailed")
       [] out = "error" \/ reqId[p] \notin DOMAIN withdrawals ->
            Respond(p, Response(404, "NotFound", "none", Null))
       [] OTHER ->
            LET w == withdrawals[reqId[p]] IN
            IF AlreadyProcessed(w)
            THEN Respond(p, Response(400, "AlreadyProcessed", w.status, Null))
            ELSE Continue(p, "readMined", [frame[p] EXCEPT !.withdrawal = w])

\* from('transactions').select('amount').eq('type','ai_mining')
ReadMined(p, out) ==
  /\ pc[p] = "readMined"
  /\ Called(p, {"readMined"})
  /\ UNCHANGED <<pair, variant, withdrawals, transactions, submissions, reqId>>
  /\ IF out = "throw"
     THEN Throw(p, "StoreReadFailed")
     ELSE Continue(p, "readWithdrawn",
            [frame[p] EXCEPT !.treasuryBalance =
               TreasuryBalance(IF out = "ok" THEN TotalAiMined(transactions) ELSE 0)])

\* from('withdrawals').select('amount').eq('status','completed'), then the
\* balance comparison
ReadWithdrawn(p, out) ==
  /\ pc[p] = "readWithdrawn"
  /\ Called(p, {"readWithdrawn"})
  /\ UNCHANGED <<pair, variant, withdrawals, transactions, submissions, reqId>>
  /\ IF out = "throw"
     THEN Throw(p, "StoreReadFailed")
     ELSE LET avail == Available(frame[p].treasuryBalance,
                         IF out = "ok" THEN TotalWithdrawn(withdrawals) ELSE 0)
          IN Continue(p, IF Insufficient(avail, frame[p].withdrawal.amount)
                         THEN "markInsufficient" ELSE "tick",
                      [frame[p] EXCEPT !.availableBalance = avail])

\* insufficient balance: update({status:'failed'}) then return 400
MarkInsufficient(p, out) ==
  /\ pc[p] = "markInsufficient"
  /\ Called(p, IF out = "ok" THEN {"markInsufficient", "markInsufficient:ok"}
               ELSE {"markInsufficient"})
  /\ UNCHANGED <<pair, variant, transactions, submissions, reqId>>
  /\ IF out = "throw"
     THEN Throw(p, "StoreWriteFailed") /\ UNCHANGED withdrawals
     ELSE /\ withdrawals' = IF out = "ok" THEN MarkFailed(withdrawals, reqId[p])
                            ELSE withdrawals
          /\ Respond(p, Response(400, "InsufficientBalance", "none", Null))

\* fetch(status) and tickResponse.json(); targetTick = currentTick + 20
Tick(p, ok, t) ==
  /\ pc[p] = "tick"
  /\ Called(p, {"tick"})
  /\ UNCHANGED <<pair, variant, withdrawals, transactions, submissions, reqId>>
  /\ IF ok
     THEN Continue(p, "build", [frame[p] EXCEPT !.targetTick = t + TickOffset])
     ELSE Throw(p, "WindowReadFailed")

\* identity derivation, package build and transaction.build(seed)
Build(p, ok, id) ==
  /\ pc[p] = "build"
  /\ Called(p, {"build"})
  /\ UNCHANGED <<pair, variant, withdrawals, transactions, submissions, reqId>>
  /\ IF ok
     THEN Continue(p, "broadcast", [frame[p] EXCEPT !.builtTxId = id])
     ELSE Throw(p, "TransferBuildFailed")

\* fetch(broadcast-transaction); outcomes of the network gateway:
\*   "unreachable" the request never arrives and fetch rejects
\*   "lost"        the network accepts but the reply is lost (fetch or json() rejects)
\*   "rejected"    reply with !ok
\*   "accepted"    reply ok, body carrying txId = resId (possibly absent)
BroadcastOutcomes == {"unreachable", "lost", "rejected", "accepted"}
Broadcast(p, out, resId) ==
  /\ pc[p] = "broadcast"
  /\ Called(p, {"submit"})
  /\ submissions' = IF out \in {"lost", "accepted"}
                    THEN submissions \cup
                           {[proc |-> p, wid |-> reqId[p], txId |-> TxOf(p)]}
                    ELSE submissions
  /\ UNCHANGED <<pair, variant, withdrawals, transactions, reqId>>
  /\ IF out # "accepted"
     THEN Throw(p, "BroadcastFailed")
     ELSE LET hash == OrElse(resId, frame[p].builtTxId) IN
          IF hash = Null /\ RejectsMissingTxHash(variant)
          THEN Throw(p, "NoTransactionId")
          ELSE Continue(p, "commit", [frame[p] EXCEPT !.txHash = hash])

\* from('withdrawals').update({status:'completed', tx_hash, completed_at})
Commit(p, out) ==
  /\ pc[p] = "commit"
  /\ Called(p, IF out = "ok" THEN {"commit", "commit:ok"} ELSE {"commit"})
  /\ UNCHANGED <<pair, variant, transactions, submissions, reqId>>
  /\ IF out = "throw"
     THEN Throw(p, "PersistenceFailed") /\ UNCHANGED withdrawals
     ELSE /\ withdrawals' = IF out = "ok"
                            THEN MarkCompleted(withdrawals, reqId[p], frame[p].txHash)
                            ELSE withdrawals
          /\ Continue(p, "commitTx", frame[p])

\* from('transactions').update({status:'completed', tx_hash})..., then res.json
CommitTx(p, out) ==
  /\ pc[p] = "commitTx"
  /\ Called(p, {"commitTx"})
  /\ UNCHANGED <<pair, variant, withdrawals, submissions, reqId>>
  /\ IF out = "throw"
     THEN Throw(p, "PersistenceFailed") /\ UNCHANGED transactions
     ELSE /\ transactions' = IF out = "ok"
                             THEN UpdateTransaction(transactions,
                                    frame[p].withdrawal.user_id, frame[p].txHash)
                             ELSE transactions
          /\ Respond(p, Response(200, "Success", "none", frame[p].txHash))

\* catch (error): update({status:'failed'}) then res.status(500)
Catch(p, out) ==
  /\ pc[p] = "catch"
  /\ Called(p, IF out = "ok" THEN {"markFailed", "markFailed:ok"} ELSE {"markFailed"})
  /\ withdrawals' = IF out = "ok" THEN MarkFailed(withdrawals, reqId[p]) ELSE withdrawals
  /\ UNCHANGED <<pair, variant, transactions, submissions, reqId>>
  /\ IF out = "throw" /\ ~CatchUpdateGuarded(variant)
     THEN Reject(p)
     ELSE Respond(p, Response(500, error[p], "none", Null))

Step(p) ==
  \/ \E out \in StoreOutcomes : Fetch(p, out)
  \/ \E out \in StoreOutcomes : ReadMined(p, out)
  \/ \E out \in StoreOutcomes : ReadWithdrawn(p, out)
  \/ \E out \in StoreOutcomes : MarkInsufficient(p, out)
  \/ \E ok \in BOOLEAN, t \in Ticks : Tick(p, ok, t)
  \/ \E ok \in BOOLEAN, id \in {Null, TxOf(p)} : Build(p, ok, id)
  \/ \E out \in BroadcastOutcomes, id \in {Null, TxOf(p)} : Broadcast(p, out, id)
  \/ \E out \in StoreOutcomes : Commit(p, out)
  \/ \E out \in StoreOutcomes : CommitTx(p, out)
  \/ \E out \in StoreOutcomes : Catch(p, out)

\* invocations are numbered in the order of their arrival
Arrive(p, id) ==
  /\ \A q \in Procs : q < p => pc[q] # "idle"
  /\ Start(p, id)

Next == \E p \in Procs : (\E id \in ReqIds : Arrive(p, id)) \/ Step(p)

Spec == Init /\ [][Next]_vars

\* ---- sequential use: invocation p starts when 1..p-1 have ended ----
SeqStart(p, id) ==
  /\ \A q \in Procs : q < p => pc[q] \in {"done", "unhandled"}
  /\ Start(p, id)

SeqNext == \E p \in Procs : (\E id \in ReqIds : SeqStart(p, id)) \/ Step(p)

SeqSpec == Init /\ [][SeqNext]_vars

\* ---- both variants on the same request, store and collaborator outcomes ----
\* the outcomes of the collaborators' calls, in the order the handler makes them
Scripts ==
  [fetch : StoreOutcomes, mined : StoreOutcomes, withdrawn : StoreOutcomes,
   mark : StoreOutcomes, tick : BOOLEAN, build : BOOLEAN, builtId : {Null, TxOf(1)},
   bcast : BroadcastOutcomes, resId : {Null, TxOf(1)},
   commit : StoreOutcomes, commitTx : StoreOutcomes, catch : StoreOutcomes]

\* the catch block of variant v: the table afterwards and the class of the answer
FailurePath(v, tbl, id, o) ==
  [withdrawals |-> IF o.catch = "ok" THEN MarkFailed(tbl, id) ELSE tbl,
   class |-> IF o.catch = "throw" /\ ~CatchUpdateGuarded(v) THEN "none" ELSE "5xx"]

\* one whole invocation of variant v on id: the table afterwards and the class
\* of the answer (2xx, 4xx, 5xx, or none when the handler's promise rejects)
RunHandler(v, id, tbl, txs, o) ==
  IF o.fetch = "throw" THEN FailurePath(v, tbl, id, o)
  ELSE IF o.fetch = "error" \/ id \notin DOMAIN tbl
  THEN [withdrawals |-> tbl, class |-> "4xx"]
  ELSE IF AlreadyProcessed(tbl[id]) THEN [withdrawals |-> tbl, class |-> "4xx"]
  ELSE IF o.mined = "throw" \/ o.withdrawn = "throw" THEN FailurePath(v, tbl, id, o)
  ELSE
    LET avail == Available(
                   TreasuryBalance(IF o.mined = "ok" THEN TotalAiMined(txs) ELSE 0),
                   IF o.withdrawn = "ok" THEN TotalWithdrawn(tbl) ELSE 0)
        hash == OrElse(o.resId, o.builtId)
        committed == IF o.commit = "ok" THEN MarkCompleted(tbl, id, hash) ELSE tbl
    IN IF Insufficient(avail, tbl[id].amount)
       THEN IF o.mark = "throw" THEN FailurePath(v, tbl, id, o)
            ELSE [withdrawals |-> IF o.mark = "ok" THEN MarkFailed(tbl, id) ELSE tbl,
                  class |-> "4xx"]
       ELSE IF ~o.tick \/ ~o.build \/ o.bcast # "accepted"
       THEN FailurePath(v, tbl, id, o)
       ELSE IF hash = Null /\ RejectsMissingTxHash(v) THEN FailurePath(v, tbl, id, o)
       ELSE IF o.commit = "throw" THEN FailurePath(v, tbl, id, o)
       ELSE IF o.commitTx = "throw" THEN FailurePath(v, committed, id, o)
       ELSE [withdrawals |-> committed, class |-> "2xx"]

RunBoth(id, o) ==
  /\ pair' = << [id |-> id, script |-> o,
                 a |-> RunHandler("A", id, withdrawals, transactions, o),
                 b |-> RunHandler("B", id, withdrawals, transactions, o)] >>
  /\ UNCHANGED <<variant, withdrawals, transactions, submissions, pc, reqId, frame,
                 error, res, calls>>

PairNext ==
  /\ pair = <<>>
  /\ \E id \in {1, UnknownId}, o \in Scripts : RunBoth(id, o)

PairSpec == Init /\ [][PairNext]_vars

\* ---- properties ----
Accepted(w) == {s \in submissions : s.wid = w}
Status(p) == withdrawals[reqId[p]].status
OnStored(p) == pc[p] # "idle" /\ reqId[p] \in StoredIds

\* C1: of the concurrent invocations on one id, at most one has its submission
\* accepted by the network and at most one commits the record as completed.
C1_SingleFlight ==
  \A p, q \in Procs :
    (p # q /\ OnStored(p) /\ OnStored(q) /\ reqId[p] = reqId[q]) =>
      /\ ~((\E s \in submissions : s.proc = p) /\ (\E s \in submissions : s.proc = q))
      /\ ~("commit:ok" \in calls[p] /\ "commit:ok" \in calls[q])

\* C2: with invocations run one after the other and any collaborator
\* failures, the network never holds two accepted submissions for one id.
C2_NoDoubleAccept == \A w \in StoredIds : Cardinality(Accepted(w)) <= 1

\* C3: a status that is completed or failed never changes again.
C3_TerminalStatus ==
  [][\A w \in StoredIds :
       withdrawals[w].status # "pending" =>
         withdrawals'[w].status = withdrawals[w].status]_vars

\* C4: an invocation whose read returns a record that is not pending answers
\* AlreadyProcessed with that status, changes nothing in the store or on the
\* network, and makes no collaborator call besides the read.
C4_StatusGuard ==
  [][\A p \in Procs :
       (pc[p] = "fetch" /\ "fetch:ok" \in calls'[p] /\ Status(p) # "pending") =>
         /\ pc'[p] = "done"
         /\ res'[p] = [code |-> 400, kind |-> "AlreadyProcessed",
                       status |-> Status(p), txHash |-> Null, explorerUrl |-> NoUrl]
         /\ calls'[p] = {"fetch", "fetch:ok"}
         /\ withdrawals' = withdrawals
         /\ transactions' = transactions
         /\ submissions' = submissions]_vars
C4_Witness ==
  \E p \in Procs : /\ res[p].kind = "AlreadyProcessed"
                   /\ res[p].status = "failed"
                   /\ calls[p] = {"fetch", "fetch:ok"}

\* C5: the balance comparison sends an invocation to the insufficient-balance
\* branch exactly when available < requested; that branch answers
\* InsufficientBalance, leaves the record failed once the store has applied
\* its update, and neither builds nor submits.
C5_Insufficient ==
  [][\A p \in Procs :
       /\ (pc[p] = "readWithdrawn" /\ pc'[p] \notin {"readWithdrawn", "catch"}) =>
            /\ pc'[p] \in {"markInsufficient", "tick"}
            /\ pc'[p] = "markInsufficient" <=>
                 frame'[p].availableBalance < 100 * frame'[p].withdrawal.amount
       /\ (pc[p] = "markInsufficient" /\ pc'[p] = "done") =>
            /\ res'[p] = [code |-> 400, kind |-> "InsufficientBalance",
                          status |-> "none", txHash |-> Null, explorerUrl |-> NoUrl]
            /\ calls'[p] \cap {"tick", "build", "submit", "commit"} = {}
            /\ submissions' = submissions
            /\ "markInsufficient:ok" \in calls'[p] =>
                 withdrawals'[reqId[p]].status = "failed"]_vars
C5_Witness ==
  \E p \in Procs : /\ res[p].kind = "InsufficientBalance"
                   /\ "markInsufficient:ok" \in calls[p]
                   /\ withdrawals[reqId[p]].status = "failed"

\* C6: run one after the other, once the first invocation on an id has had its
\* submission accepted, committed the record as completed and answered
\* success, a later invocation on that id never submits, answers
\* AlreadyProcessed when its read returns the record, and the id keeps exactly
\* one accepted submission.
FullyCompleted(p) ==
  /\ pc[p] = "done"
  /\ res[p].kind = "Success"
  /\ "commit:ok" \in calls[p]
  /\ \E s \in submissions : s.proc = p
FirstOnId(p) == \A q \in Procs : q < p => reqId[q] # reqId[p]
C6_Idempotent ==
  \A p, q \in Procs :
    (p < q /\ OnStored(q) /\ reqId[q] = reqId[p] /\ FirstOnId(p) /\ FullyCompleted(p)) =>
      /\ "submit" \notin calls[q]
      /\ "fetch:ok" \in calls[q] => (pc[q] = "done" /\ res[q].kind = "AlreadyProcessed")
      /\ Cardinality(Accepted(reqId[p])) = 1
C6_Witness ==
  \E p, q \in Procs :
    /\ p < q /\ reqId[q] = reqId[p] /\ FirstOnId(p) /\ FullyCompleted(p)
    /\ res[q].kind = "AlreadyProcessed" /\ res[q].status = "completed"

\* C7: every record in status completed carries a transaction identifier
\* that is neither null nor empty.
C7_CompletedHasTxId ==
  \A w \in StoredIds : withdrawals[w].status = "completed" => withdrawals[w].tx_hash # Null

C10_FailurePath ==
  [][\A p \in Procs :
       (pc[p] = "catch" /\ pc'[p] # "catch") =>
         /\ "markFailed" \in calls'[p]
         /\ pc'[p] = "done"
         /\ res'[p].code = 500
         /\ res'[p].kind = error[p]]_vars

\* C11: once an invocation has committed the record as completed, no later
\* step of that invocation (the second update failing included) takes the
\* record out of completed or changes its transaction identifier.
C11_NoRollback ==
  [][\A p \in Procs :
       (/\ OnStored(p) /\ "commit:ok" \in calls[p]
        /\ Status(p) = "completed"
        /\ pc'[p] # pc[p]) =>
         withdrawals'[reqId[p]] = withdrawals[reqId[p]]]_vars

\* C12: an invocation whose submission was accepted answers success only
\* when the record is completed with that submission's identifier.
C12_NoSilentPersistenceFailure ==
  [][\A p \in Procs :
       (/\ pc[p] = "commitTx" /\ pc'[p] = "done"
        /\ res'[p].kind = "Success"
        /\ \E s \in submissions : s.proc = p) =>
         /\ withdrawals'[reqId[p]].status = "completed"
         /\ withdrawals'[reqId[p]].tx_hash = res'[p].txHash]_vars

\* C13: an invocation on an id that has no record changes nothing in the
\* store or on the network in any of its steps, makes no call besides the
\* read, and answers NotFound unless the read itself raised.
C13_NotFound ==
  [][\A p \in Procs :
       (pc[p] # "idle" /\ reqId[p] = UnknownId /\ pc'[p] # pc[p]) =>
         /\ withdrawals' = withdrawals
         /\ transactions' = transactions
         /\ submissions' = submissions
         /\ calls'[p] \subseteq {"fetch", "markFailed", "markFailed:ok"}
         /\ pc[p] = "fetch" =>
              \/ pc'[p] = "catch"
              \/ /\ pc'[p] = "done"
                 /\ res'[p] = [code |-> 404, kind |-> "NotFound", status |-> "none",
                               txHash |-> Null, explorerUrl |-> NoUrl]
                 /\ calls'[p] = {"fetch"}]_vars
C13_Witness ==
  \E p \in Procs : /\ reqId[p] = UnknownId
                   /\ res[p].kind = "NotFound"
                   /\ calls[p] = {"fetch"}
                   /\ \A w \in StoredIds : withdrawals[w].status = "pending"

\* the amounts of the ai_mining rows, summed row by row
RECURSIVE MinedUpTo(_)
MinedUpTo(n) ==
  IF n = 0 THEN 0
  ELSE MinedUpTo(n - 1)
       + (IF transactions[n].type = "ai_mining" THEN transactions[n].amount ELSE 0)
LedgerMined == MinedUpTo(Len(transactions))
\* the amounts of the withdrawals in status completed
LedgerWithdrawn ==
  (IF withdrawals[1].status = "completed" THEN AmountOf(1) ELSE 0)
  + (IF withdrawals[2].status = "completed" THEN AmountOf(2) ELSE 0)

\* C14: run on its own, an invocation on a pending withdrawal with
\* amount <= available balance goes on to the window read; when window read,
\* build and submit succeed it reaches the commit; and when the commit is
\* applied and an identifier came back from the submit or the build, the
\* record ends completed with that identifier, which is also the one in the
\* success response together with the explorer reference made from it.
C14_SuccessPath ==
  [][\A p \in Procs :
       /\ (/\ pc[p] = "readWithdrawn" /\ pc'[p] \notin {"readWithdrawn", "catch"}
           /\ frame'[p].availableBalance >= 100 * frame'[p].withdrawal.amount) =>
            pc'[p] = "tick"
       /\ (pc[p] = "tick" /\ pc'[p] \notin {"tick", "catch"}) => pc'[p] = "build"
       /\ (pc[p] = "build" /\ pc'[p] \notin {"build", "catch"}) => pc'[p] = "broadcast"
       /\ (pc[p] = "broadcast" /\ pc'[p] \notin {"broadcast", "catch"}) =>
            /\ pc'[p] = "commit"
            /\ \E s \in submissions' : s.proc = p /\ s.wid = reqId[p]
            /\ frame[p].builtTxId # Null => frame'[p].txHash # Null
       /\ (pc[p] = "commit" /\ pc'[p] \notin {"commit", "catch"}) =>
            /\ pc'[p] = "commitTx"
            /\ "commit:ok" \in calls'[p] =>
                 /\ withdrawals'[reqId[p]].status = "completed"
                 /\ withdrawals'[reqId[p]].tx_hash = frame[p].txHash
       /\ (/\ pc[p] = "commitTx" /\ pc'[p] \notin {"commitTx", "catch"}
           /\ "commit:ok" \in calls[p] /\ frame[p].txHash # Null) =>
            /\ pc'[p] = "done"
            /\ res'[p] = [code |-> 200, kind |-> "Success", status |-> "none",
                          txHash |-> frame[p].txHash,
                          explorerUrl |-> <<"https://explorer.qubic.org/network/tx/",
                                            frame[p].txHash>>]
            /\ withdrawals'[reqId[p]].status = "completed"
            /\ withdrawals'[reqId[p]].tx_hash = res'[p].txHash]_vars
\* the equality case: available balance 11.00 and amount 11
C14_Witness ==
  \E p \in Procs :
    /\ reqId[p] = 1 /\ res[p].kind = "Success" /\ res[p].txHash = TxOf(p)
    /\ withdrawals[1].status = "completed" /\ withdrawals[1].tx_hash = TxOf(p)
    /\ withdrawals[2].status = "pending"
    /\ LedgerMined * 55 = AmountOf(1) * 100

\* C15: the balance computation returns (sum of the ai_mining amounts x 0.55)
\* minus (sum of the amounts of the completed withdrawals), pending and failed
\* withdrawals counting for nothing and a result set that is empty or absent
\* counting as zero; neither read changes a record.  Amounts in hundredths.
C15_BalanceFormula ==
  [][\A p \in Procs :
       /\ (pc[p] = "readMined" /\ pc'[p] \notin {"readMined", "catch"}) =>
            /\ frame'[p].treasuryBalance \in {55 * LedgerMined, 0}
            /\ withdrawals' = withdrawals /\ transactions' = transactions
       /\ (pc[p] = "readWithdrawn" /\ pc'[p] \notin {"readWithdrawn", "catch"}) =>
            /\ frame'[p].availableBalance \in
                 {frame[p].treasuryBalance - 100 * LedgerWithdrawn,
                  frame[p].treasuryBalance}
            /\ withdrawals' = withdrawals /\ transactions' = transactions]_vars
C15_Witness ==
  \E p \in Procs :
    /\ pc[p] = "markInsufficient"
    /\ LedgerMined > 0 /\ LedgerWithdrawn > 0
    /\ frame[p].availableBalance = 55 * LedgerMined - 100 * LedgerWithdrawn

\* C16: run one after the other, the steps of an invocation whose build
\* succeeded and whose submit was not accepted (the refused submit and the
\* failure path after it) leave the available balance as it was, so a later
\* invocation computes the same balance as before.
StoreBalance ==
  Available(TreasuryBalance(TotalAiMined(transactions)), TotalWithdrawn(withdrawals))
C16_BalanceUnchangedByFailedSubmit ==
  [][\A p \in Procs :
       (/\ "build" \in calls[p] /\ pc'[p] # pc[p]
        /\ \/ pc[p] = "broadcast" /\ pc'[p] = "catch"
           \/ pc[p] = "catch" /\ error[p] = "BroadcastFailed"
        /\ ~ \E s \in submissions' : s.proc = p) =>
         /\ StoreBalance' = StoreBalance
         /\ 55 * LedgerMined' - 100 * LedgerWithdrawn'
              = 55 * LedgerMined - 100 * LedgerWithdrawn]_vars
C16_Witness ==
  \E p, q \in Procs :
    /\ p < q /\ res[p].kind = "BroadcastFailed" /\ "markFailed:ok" \in calls[p]
    /\ submissions = {}
    /\ withdrawals[reqId[p]].status = "failed"
    /\ pc[q] = "tick" /\ LedgerMined > 0
    /\ frame[q].availableBalance = 55 * LedgerMined

\* C17: the completed withdrawals never add up to more than the accrued
\* amount x 0.55 (amounts in hundredths).
C17_NoOverdraw == 100 * LedgerWithdrawn <= 55 * LedgerMined

\* C18: a completed record carries the identifier of a submission that the
\* network accepted for that withdrawal.
C18_CompletedMatchesSubmission ==
  \A w \in StoredIds :
    withdrawals[w].status = "completed" =>
      \E s \in submissions : s.wid = w /\ s.txId = withdrawals[w].tx_hash

\* C19: an invocation that has ended has sent a response.
C19_AlwaysResponds ==
  \A p \in Procs : pc[p] \in {"done", "unhandled"} => res[p].code # 0

\* C20: run side by side on the same request, store and collaborator
\* outcomes, the two variants leave the record in the same status with the
\* same transaction identifier and answer in the same class.
C20_VariantsAgree ==
  pair # <<>> => pair[1].a = pair[1].b
====
